---- MODULE Spec2Model ----
(***************************************************************************)
(* EDULINE adaptive quiz (try.py).  The Streamlit script is modelled as a  *)
(* state machine over st.session_state.app / st.session_state.quiz: every  *)
(* action is one run of the script, triggered by a button click, by the    *)
(* one-second auto-refresh, or by the st.rerun() of the run before it.     *)
(***************************************************************************)
EXTENDS Integers, Sequences, FiniteSets, TLC

VARIABLES
    stage,            \* app["stage"]
    student_uuid,     \* app["student_uuid"]
    started,          \* quiz["started"]
    subject,          \* quiz["subject"]
    cluster,          \* quiz["cluster"]
    question_index,   \* quiz["question_index"]
    total_questions,  \* quiz["total_questions"]
    score,            \* quiz["score"]
    used_indices,     \* quiz["used_indices"], a list
    current_question, \* quiz["current_question"]: <<>> is None, <<row>> a row of df_subj
    submitted,        \* quiz["submitted"]
    feedback,         \* quiz["feedback"]
    weak_clusters,    \* quiz["weak_clusters"], a dict: sequence of [cl, misses] in insertion order
    mode,             \* quiz["mode"]
    weak_only_list,   \* quiz["weak_only_list"]
    time_left,        \* quiz["time_left"]
    enable_timer,     \* quiz["enable_timer"]
    df_all,           \* the question bank read from QUESTIONS_CSV (never written)
    saved,            \* the row this run gave to save_result and the table took: <<>> or <<row>>
    rerun,            \* TRUE when the last run ended in st.rerun(): the script runs again at once
    submit_calls,     \* history: number of submit_answer calls since reset_quiz_state
    advance_calls,    \* history: number of Next Question clicks since reset_quiz_state
    answers,          \* history: per question presented since reset_quiz_state, was its first answer correct
    last_op           \* history: the helper the last run executed last

vars == <<stage, student_uuid, started, subject, cluster, question_index,
          total_questions, score, used_indices, current_question, submitted,
          feedback, weak_clusters, mode, weak_only_list, time_left,
          enable_timer, df_all, saved, rerun, submit_calls, advance_calls,
          answers, last_op>>

quizvars == <<started, subject, cluster, question_index, total_questions, score,
              used_indices, current_question, submitted, feedback,
              weak_clusters, mode, weak_only_list, time_left, enable_timer>>

history == <<submit_calls, advance_calls, answers>>

-----------------------------------------------------------------------------
(* Program constants *)

DEFAULT_TOTAL_Q == 5
MIN_CLUSTER == 1
ENGLISH_LIMIT == 7
MATHEMATICS_LIMIT == 8
UNKNOWN_SUBJECT_LIMIT == 6
SECONDS_PER_Q == 15
SLIDER_MIN == 3

(* Bounds of the model *)

\* the slider offers 3..20 questions; the model offers SLIDER_MIN..MaxTotalQ
MaxTotalQ == 3
\* an answered question can be submitted again while the round has seen fewer
\* than MaxSubmits Submit Answer clicks
MaxSubmits == 3
\* a run sees 0..MaxElapsedUnits * SECONDS_PER_Q seconds since the last tick
MaxElapsedUnits == 1

-----------------------------------------------------------------------------
(* Cluster policy *)

Min(a, b) == IF a <= b THEN a ELSE b
Max(a, b) == IF a >= b THEN a ELSE b

KnownSubjects == {"English", "Mathematics"}

\* CLUSTER_LIMITS[subject], defined for the two known subjects
CLUSTER_LIMITS(subj) == IF subj = "English" THEN ENGLISH_LIMIT ELSE MATHEMATICS_LIMIT

\* CLUSTER_LIMITS.get(subject, default)
ClusterLimitOr(subj, default) ==
    IF subj \in KnownSubjects THEN CLUSTER_LIMITS(subj) ELSE default

\* cluster_topics.get(cl, {}).get(subject, f"Topic {cl}")
cluster_topics(cl, subj) ==
    LET eng == <<"Spelling, Vocabulary", "Grammar (Sentence Structure)",
                 "Parts of Speech (Adjectives, Nouns)",
                 "Synonyms, Antonyms, Vocabulary", "Passive Voice, Opposites",
                 "Prepositions, Conjunctions", "Minor Grammar">>
        mat == <<"Number Properties", "Equations, Expressions", "Geometry Basics",
                 "Basic Operations", "Simple Calculations", "Fractions, Decimals",
                 "Ratios, Word Problems", "Algebra, Fractions, Equations">>
    IN  IF subj = "English" /\ cl = 0 THEN <<"Verb Tenses, Sentence Completion">>
        ELSE IF subj = "Mathematics" /\ cl = 0 THEN <<"Basic Arithmetic, Word Problems">>
        ELSE IF subj = "English" /\ cl \in 1..7 THEN <<eng[cl]>>
        ELSE IF subj = "Mathematics" /\ cl \in 1..8 THEN <<mat[cl]>>
        ELSE <<"Topic", cl>>

-----------------------------------------------------------------------------
(* Strings are sequences of one-character strings *)

Space == " "

RECURSIVE lstrip(_)
lstrip(s) == IF s # <<>> /\ Head(s) = Space THEN lstrip(Tail(s)) ELSE s

RECURSIVE rstrip(_)
rstrip(s) ==
    IF s # <<>> /\ s[Len(s)] = Space THEN rstrip(SubSeq(s, 1, Len(s) - 1)) ELSE s

\* str.strip()
strip(s) == rstrip(lstrip(s))

upper_char(c) ==
    CASE c = "a" -> "A" [] c = "b" -> "B" [] c = "c" -> "C" [] c = "d" -> "D"
      [] OTHER -> c

\* str.upper()
upper(s) == [i \in 1..Len(s) |-> upper_char(s[i])]

-----------------------------------------------------------------------------
(* The question bank *)

Row(subj, cl, ans) == [Subject |-> subj, Cluster |-> cl, Correct |-> ans]

\* the rows of questions_clus8.csv the model reads: Subject, Cluster, Correct Answer
QuestionBank ==
    << Row("Mathematics", 4, <<"A">>),
       Row("Mathematics", 5, <<"b">>),
       Row("Mathematics", 4, <<" ", "C">>),
       Row("Mathematics", 0, <<"D", " ">>),
       Row("English", 3, <<"a">>),
       Row("English", 7, <<" ", "B", " ">>) >>

\* a questions file that also holds rows of a subject CLUSTER_LIMITS does not name
QuestionBankOtherSubject ==
    QuestionBank \o << Row("Physics", 3, <<"A">>),
                       Row("Physics", 9, <<"B">>) >>

\* sorted(df_all["Subject"].unique())
SubjectOptions == {df_all[i].Subject : i \in 1..Len(df_all)}

\* df_all[df_all["Subject"] == subject].reset_index(drop=True)
df_subj(subj) ==
    LET IsSubj(r) == r.Subject = subj IN SelectSeq(df_all, IsSubj)

Range(s) == {s[i] : i \in 1..Len(s)}

-----------------------------------------------------------------------------
(* Python dicts keep insertion order: a dict is a sequence of [cl, misses] *)

DictKeys(d) == [i \in 1..Len(d) |-> d[i].cl]

HasKey(d, k) == \E i \in 1..Len(d) : d[i].cl = k

\* d.get(k, default)
DictGet(d, k, default) ==
    IF HasKey(d, k) THEN d[CHOOSE i \in 1..Len(d) : d[i].cl = k].misses ELSE default

\* d[k] = v
DictSet(d, k, v) ==
    IF HasKey(d, k)
    THEN [i \in 1..Len(d) |-> IF d[i].cl = k THEN [cl |-> k, misses |-> v] ELSE d[i]]
    ELSE Append(d, [cl |-> k, misses |-> v])

\* [c for c, m in quiz["weak_clusters"].items() if m > 0]
weak_list ==
    LET Missed(e) == e.misses > 0 IN DictKeys(SelectSeq(weak_clusters, Missed))

-----------------------------------------------------------------------------
(* reset_quiz_state *)

\* mutant: a weak_only round starts at mid as a normal one does
StartCluster_AlwaysMid(subj, m, wl) ==
    ClusterLimitOr(subj, UNKNOWN_SUBJECT_LIMIT) \div 2

\* mid and start_cluster of reset_quiz_state
StartCluster(subj, m, wl) ==
    LET mid == ClusterLimitOr(subj, UNKNOWN_SUBJECT_LIMIT) \div 2
    IN  IF m = "normal" THEN mid ELSE IF wl # <<>> THEN wl[1] ELSE mid

\* the "weak_clusters" entry of reset_quiz_state
SeedTally(m, wl) ==
    IF m = "normal" THEN <<>> ELSE [i \in 1..Len(wl) |-> [cl |-> wl[i], misses |-> 0]]

reset_quiz_state(subj, total_q, m, wl, timer) ==
    /\ started' = TRUE
    /\ subject' = subj
    /\ cluster' = StartCluster(subj, m, wl)
    /\ question_index' = 0
    /\ total_questions' = total_q
    /\ score' = 0
    /\ used_indices' = <<>>
    /\ current_question' = <<>>
    /\ submitted' = FALSE
    /\ feedback' = <<>>
    /\ weak_clusters' = SeedTally(m, wl)
    /\ mode' = m
    /\ weak_only_list' = wl
    /\ time_left' = IF timer THEN total_q * SECONDS_PER_Q ELSE 0
    /\ enable_timer' = timer
    /\ submit_calls' = 0
    /\ advance_calls' = 0
    /\ answers' = <<>>

-----------------------------------------------------------------------------
(* load_next_question *)

WeakOnly == mode = "weak_only" /\ weak_only_list # <<>>

\* the values target_cluster can take: quiz["cluster"], or random.choice(weak_only_list)
TargetClusters ==
    IF WeakOnly /\ cluster \notin Range(weak_only_list)
    THEN Range(weak_only_list)
    ELSE {cluster}

\* index labels of df_subj: 0 .. n-1
Names == 0 .. (Len(df_subj(subject)) - 1)

RowOf(name) == df_subj(subject)[name + 1]

\* mutant: the used rows are not dropped
DropUsed_KeepsUsed(names) == names

\* frame.drop(quiz["used_indices"], errors="ignore")
DropUsed(names) == names \ Range(used_indices)

\* df_subj[df_subj["Cluster"] == target_cluster].drop(used)
TargetPool(target) == DropUsed({n \in Names : RowOf(n).Cluster = target})

\* mutant: the widened pool ignores the candidate list
WidenedPool_IgnoresList == DropUsed(Names)

\* mutant: no widening, an empty target pool ends the round
WidenedPool_NoWidening == {}

\* the subset taken when the target pool is empty
WidenedPool ==
    IF WeakOnly
    THEN DropUsed({n \in Names : RowOf(n).Cluster \in Range(weak_only_list)})
    ELSE DropUsed(Names)

\* subset, as line 186 sees it
Subset(target) == IF TargetPool(target) = {} THEN WidenedPool ELSE TargetPool(target)

\* the question q = subset.sample(1).iloc[0] with q.name = name
Question(name) ==
    [name |-> name, Cluster |-> RowOf(name).Cluster, Correct |-> RowOf(name).Correct]

\* load_next_question returning True with q.name = name
LoadQuestion(target, name) ==
    /\ cluster' = target
    /\ current_question' = <<Question(name)>>
    /\ used_indices' = Append(used_indices, name)
    /\ submitted' = FALSE
    /\ feedback' = <<>>

-----------------------------------------------------------------------------
(* submit_answer *)

ChoiceKeys == {<<"A">>, <<"B">>, <<"C">>, <<"D">>}

\* values of the parameter choice_key the radio does not produce: lower case,
\* padded, and both
TypedKeys == {<<"a">>, <<"b">>, <<" ", "A", " ">>}

\* mutant: the stored key is compared as it is in the file
CorrectKey_AsStored(q) == q.Correct

\* correct = str(q["Correct Answer"]).strip().upper()
CorrectKey(q) == upper(strip(q.Correct))

\* choice_key == correct
IsCorrect(choice_key, q) == choice_key = CorrectKey(q)

\* mutant: the step up is not clamped to the subject's limit
ClusterAfterCorrect_NoClamp(subj, m, cl) == IF m = "normal" THEN cl + 1 ELSE cl

\* quiz["cluster"] after a correct answer
ClusterAfterCorrect(subj, m, cl) ==
    IF m = "normal" THEN Min(ClusterLimitOr(subj, cl + 1), cl + 1) ELSE cl

\* mutant: the step down is taken in every mode
ClusterAfterWrong_AnyMode(m, cl) == Max(MIN_CLUSTER, cl - 1)

\* quiz["cluster"] after a wrong answer
ClusterAfterWrong(m, cl) ==
    IF m = "normal" THEN Max(MIN_CLUSTER, cl - 1) ELSE cl

\* mutant: the miss is counted under the cluster the wrong answer steps down to
MissKey_AfterStep(q, cluster_at_time) == Max(MIN_CLUSTER, cluster_at_time - 1)

\* the key of quiz["weak_clusters"] a wrong answer is counted under
MissKey(q, cluster_at_time) == cluster_at_time

\* mutant: a miss sets the entry to 1 instead of adding to it
RecordMiss_NoAccumulate(wc, k) == DictSet(wc, k, 1)

\* quiz["weak_clusters"][k] = quiz["weak_clusters"].get(k, 0) + 1
RecordMiss(wc, k) == DictSet(wc, k, DictGet(wc, k, 0) + 1)

submit_answer(choice_key) ==
    LET q == current_question[1]
        cluster_at_time == cluster
    IN  /\ IF IsCorrect(choice_key, q)
           THEN /\ score' = score + 1
                /\ cluster' = ClusterAfterCorrect(subject, mode, cluster)
                /\ feedback' = <<"Correct">>
                /\ weak_clusters' = weak_clusters
           ELSE /\ score' = score
                /\ cluster' = ClusterAfterWrong(mode, cluster)
                /\ feedback' = <<"Wrong", CorrectKey(q)>>
                /\ weak_clusters' = RecordMiss(weak_clusters, MissKey(q, cluster_at_time))
        /\ submitted' = TRUE
        /\ submit_calls' = submit_calls + 1
        /\ answers' = IF submitted THEN answers
                       ELSE Append(answers, IsCorrect(choice_key, q))

-----------------------------------------------------------------------------
(* finish_and_record *)

\* mutant: the ratio counts the question on the page as done
ProgressRatio_CountsCurrent(qi, total_q) == <<qi + 1, Max(1, total_q)>>

\* progress_ratio as the fraction <<numerator, denominator>>
ProgressRatio(qi, total_q) == <<qi, Max(1, total_q)>>

\* mapped_weak: topic name -> misses, in the order of quiz["weak_clusters"]
MappedWeak(wc, subj) ==
    [i \in 1..Len(wc) |-> [topic |-> cluster_topics(wc[i].cl, subj), misses |-> wc[i].misses]]

\* the row save_result inserts
ResultRow(qi) ==
    [student_uuid |-> student_uuid, subject |-> subject, score |-> score,
     total_questions |-> total_questions,
     progress |-> ProgressRatio(qi, total_questions),
     weak_clusters |-> MappedWeak(weak_clusters, subject)]

\* mutant: the exception of save_result leaves finish_and_record before the
\* round is closed
finish_and_record_Propagates(qi, save_ok) ==
    /\ saved' = IF save_ok THEN <<ResultRow(qi)>> ELSE <<>>
    /\ started' = (IF save_ok THEN FALSE ELSE started)
    /\ stage' = IF save_ok THEN "finished" ELSE stage

\* mutant: app["stage"] is left as it was
finish_and_record_KeepsStage(qi, save_ok) ==
    /\ saved' = IF save_ok THEN <<ResultRow(qi)>> ELSE <<>>
    /\ started' = FALSE
    /\ stage' = stage

\* finish_and_record with quiz["question_index"] = qi; save_ok is FALSE when
\* save_result raises
finish_and_record(qi, save_ok) ==
    /\ saved' = IF save_ok THEN <<ResultRow(qi)>> ELSE <<>>
    /\ started' = FALSE
    /\ stage' = "finished"

-----------------------------------------------------------------------------
(* The timer block of the quiz stage *)

\* int(elapsed): whole seconds since quiz["last_tick"], as a run may see them
Elapsed == {k * SECONDS_PER_Q : k \in 0..MaxElapsedUnits}

\* quiz["time_left"] after the tick of a run that sees e seconds
Tick(e) == IF enable_timer /\ e >= 1 THEN time_left - e ELSE time_left

\* the run reaches "Time's up"
TimeUp(e) == enable_timer /\ Tick(e) <= 0

-----------------------------------------------------------------------------
(* Initial state: the two session_state dicts as the script creates them *)

InitState(bank) ==
    /\ stage = "register"
    /\ student_uuid = "None"
    /\ started = FALSE
    /\ subject = "None"
    /\ cluster = 0
    /\ question_index = 0
    /\ total_questions = DEFAULT_TOTAL_Q
    /\ score = 0
    /\ used_indices = <<>>
    /\ current_question = <<>>
    /\ submitted = FALSE
    /\ feedback = <<>>
    /\ weak_clusters = <<>>
    /\ mode = "normal"
    /\ weak_only_list = <<>>
    /\ time_left = 0
    /\ enable_timer = TRUE
    /\ df_all = bank
    /\ saved = <<>>
    /\ rerun = FALSE
    /\ submit_calls = 0
    /\ advance_calls = 0
    /\ answers = <<>>
    /\ last_op = "init"

Init == InitState(QuestionBank)

\* the script started on a questions file with a third subject
InitOtherSubject == InitState(QuestionBankOtherSubject)

-----------------------------------------------------------------------------
\* a run that does not reach save_result
NoSave == saved' = <<>>

(* Stage register *)

CreateStudentID ==
    /\ ~rerun /\ stage = "register"
    /\ student_uuid' = "EDU-0A1B2C3D"
    /\ stage' = "subject"
    /\ rerun' = TRUE
    /\ last_op' = "register"
    /\ NoSave
    /\ UNCHANGED <<quizvars, df_all, history>>

(* Stage subject *)

\* mutant: the empty list is not turned away
NoWeakAreas_NeverRejects(wl) == FALSE

\* not weak_list
NoWeakAreas(wl) == wl = <<>>

TotalQOptions == SLIDER_MIN..MaxTotalQ

StartAdaptiveQuiz ==
    /\ ~rerun /\ stage = "subject"
    /\ \E subj \in SubjectOptions, total_q \in TotalQOptions, timer \in BOOLEAN :
          reset_quiz_state(subj, total_q, "normal", <<>>, timer)
    /\ stage' = "quiz"
    /\ rerun' = TRUE
    /\ last_op' = "reset"
    /\ NoSave
    /\ UNCHANGED <<student_uuid, df_all>>

RetryWeakAreasSubject ==
    /\ ~rerun /\ stage = "subject"
    /\ IF NoWeakAreas(weak_list)
       THEN /\ last_op' = "no_weak_areas"
            /\ UNCHANGED <<stage, rerun, quizvars, history>>
       ELSE /\ \E subj \in SubjectOptions, total_q \in TotalQOptions, timer \in BOOLEAN :
                  reset_quiz_state(subj, total_q, "weak_only", weak_list, timer)
            /\ stage' = "quiz"
            /\ rerun' = TRUE
            /\ last_op' = "reset"
    /\ NoSave
    /\ UNCHANGED <<student_uuid, df_all>>

-----------------------------------------------------------------------------
(* Stage quiz *)

\* A run of the quiz stage no button started: lines 307-335, then the page
QuizRerun ==
    /\ rerun /\ stage = "quiz"
    /\ IF ~started
       THEN /\ stage' = "subject"
            /\ rerun' = TRUE
            /\ NoSave
            /\ UNCHANGED <<quizvars, history, last_op>>
       ELSE \E target \in TargetClusters, e \in Elapsed, save_ok \in BOOLEAN :
              IF current_question = <<>> /\ Subset(target) = {}
              THEN \* load_next_question returns False
                   /\ cluster' = target
                   /\ finish_and_record(question_index, save_ok)
                   /\ rerun' = TRUE
                   /\ last_op' = "finish_exhausted"
                   /\ UNCHANGED <<subject, question_index, total_questions, score,
                                  used_indices, current_question, submitted, feedback,
                                  weak_clusters, mode, weak_only_list, time_left,
                                  enable_timer, history>>
              ELSE /\ IF current_question = <<>>
                      THEN \E name \in Subset(target) : LoadQuestion(target, name)
                      ELSE UNCHANGED <<cluster, current_question, used_indices,
                                       submitted, feedback>>
                   /\ time_left' = Tick(e)
                   /\ IF TimeUp(e)
                      THEN /\ finish_and_record(question_index, save_ok)
                           /\ rerun' = TRUE
                           /\ last_op' = "finish_time"
                      ELSE /\ rerun' = FALSE
                           /\ last_op' = IF current_question = <<>> THEN "load" ELSE last_op
                           /\ NoSave
                           /\ UNCHANGED <<started, stage>>
                   /\ UNCHANGED <<subject, question_index, total_questions, score,
                                  weak_clusters, mode, weak_only_list, enable_timer,
                                  history>>
    /\ UNCHANGED <<student_uuid, df_all>>

\* The one-second st_autorefresh run of a page that shows a question
TimerRefresh ==
    /\ ~rerun /\ stage = "quiz" /\ enable_timer
    /\ \E e \in Elapsed, save_ok \in BOOLEAN :
          /\ time_left' = Tick(e)
          /\ IF TimeUp(e)
             THEN /\ finish_and_record(question_index, save_ok)
                  /\ rerun' = TRUE
                  /\ last_op' = "finish_time"
             ELSE /\ NoSave
                  /\ UNCHANGED <<started, stage, rerun, last_op>>
    /\ UNCHANGED <<student_uuid, df_all, subject, cluster, question_index,
                   total_questions, score, used_indices, current_question, submitted,
                   feedback, weak_clusters, mode, weak_only_list, enable_timer,
                   history>>

\* A button of the quiz page is reached only by a run that passes lines 307-335
ReachesButtons(e) ==
    /\ ~rerun /\ stage = "quiz" /\ started /\ current_question # <<>>
    /\ ~TimeUp(e)

\* a run whose Submit Answer handler calls submit_answer(choice)
SubmitWith(choice) ==
    \E e \in Elapsed :
        /\ ReachesButtons(e)
        /\ submitted => submit_calls < MaxSubmits
        /\ time_left' = Tick(e)
        /\ submit_answer(choice)
        /\ rerun' = TRUE
        /\ last_op' = "submit"
        /\ NoSave
        /\ UNCHANGED <<stage, student_uuid, started, subject, question_index,
                       total_questions, used_indices, current_question, mode,
                       weak_only_list, enable_timer, df_all, advance_calls>>

\* st.button("Submit Answer"): the key comes from the radio
SubmitAnswerButton == \E choice \in ChoiceKeys : SubmitWith(choice)

\* submit_answer called with a key as a caller may type it
SubmitAnyKey == \E choice \in TypedKeys : SubmitWith(choice)

QuitQuiz ==
    \E e \in Elapsed, save_ok \in BOOLEAN :
        /\ ReachesButtons(e)
        /\ time_left' = Tick(e)
        /\ finish_and_record(question_index, save_ok)
        /\ rerun' = TRUE
        /\ last_op' = "finish_quit"
        /\ UNCHANGED <<student_uuid, subject, cluster, question_index, total_questions,
                       score, used_indices, current_question, submitted, feedback,
                       weak_clusters, mode, weak_only_list, enable_timer, df_all,
                       history>>

RestartQuiz ==
    \E e \in Elapsed :
        /\ ReachesButtons(e)
        /\ time_left' = Tick(e)
        /\ stage' = "subject"
        /\ started' = FALSE
        /\ rerun' = TRUE
        /\ last_op' = "restart"
        /\ NoSave
        /\ UNCHANGED <<student_uuid, subject, cluster, question_index, total_questions,
                       score, used_indices, current_question, submitted, feedback,
                       weak_clusters, mode, weak_only_list, enable_timer, df_all,
                       history>>

\* mutant: the round ends one question late
TargetReached_Late(qi, total_q) == qi > total_q

\* mutant: the target never ends the round
TargetReached_Never(qi, total_q) == FALSE

\* mutant: the round ends one question early
TargetReached_Early(qi, total_q) == qi >= total_q - 1

\* quiz["question_index"] >= quiz["total_questions"]
TargetReached(qi, total_q) == qi >= total_q

NextQuestion ==
    \E e \in Elapsed, save_ok \in BOOLEAN :
        /\ ReachesButtons(e)
        /\ submitted
        /\ time_left' = Tick(e)
        /\ question_index' = question_index + 1
        /\ current_question' = <<>>
        /\ submitted' = FALSE
        /\ feedback' = <<>>
        /\ advance_calls' = advance_calls + 1
        /\ IF TargetReached(question_index + 1, total_questions)
           THEN /\ finish_and_record(question_index + 1, save_ok)
                /\ last_op' = "finish_target"
           ELSE /\ last_op' = "advance"
                /\ NoSave
                /\ UNCHANGED <<started, stage>>
        /\ rerun' = TRUE
        /\ UNCHANGED <<student_uuid, subject, cluster, total_questions, score,
                       used_indices, weak_clusters, mode, weak_only_list, enable_timer,
                       df_all, submit_calls, answers>>

-----------------------------------------------------------------------------
(* Stage finished *)

RetryWeakAreasFinished ==
    /\ ~rerun /\ stage = "finished"
    /\ IF NoWeakAreas(weak_list)
       THEN /\ last_op' = "no_weak_areas"
            /\ UNCHANGED <<stage, rerun, quizvars, history>>
       ELSE /\ reset_quiz_state(subject, total_questions, "weak_only", weak_list, TRUE)
            /\ stage' = "quiz"
            /\ rerun' = TRUE
            /\ last_op' = "reset"
    /\ NoSave
    /\ UNCHANGED <<student_uuid, df_all>>

ChooseAnotherSubject ==
    /\ ~rerun /\ stage = "finished"
    /\ stage' = "subject"
    /\ rerun' = TRUE
    /\ last_op' = "choose_subject"
    /\ NoSave
    /\ UNCHANGED <<student_uuid, quizvars, df_all, history>>

\* The run after st.rerun() in a stage that only draws its page
Render ==
    /\ rerun /\ stage # "quiz"
    /\ rerun' = FALSE
    /\ NoSave
    /\ UNCHANGED <<stage, student_uuid, quizvars, df_all, history, last_op>>

-----------------------------------------------------------------------------

Next ==
    \/ CreateStudentID
    \/ StartAdaptiveQuiz
    \/ RetryWeakAreasSubject
    \/ QuizRerun
    \/ TimerRefresh
    \/ SubmitAnswerButton
    \/ QuitQuiz
    \/ RestartQuiz
    \/ NextQuestion
    \/ RetryWeakAreasFinished
    \/ ChooseAnotherSubject
    \/ Render

Spec == Init /\ [][Next]_vars

SpecOtherSubject == InitOtherSubject /\ [][Next]_vars

\* the program with submit_answer also called on keys other than the radio's
NextAnyKey == Next \/ SubmitAnyKey

SpecAnyKey == Init /\ [][NextAnyKey]_vars

-----------------------------------------------------------------------------
(* Steps, as the history variables show them *)

\* a run that called submit_answer
SubmitStep == submit_calls' = submit_calls + 1

\* a run that handled Next Question
AdvanceStep == advance_calls' = advance_calls + 1

\* a run in which load_next_question returned True
LoadStep == current_question = <<>> /\ current_question' # <<>>

\* a run that handled Quit Quiz or met "Time's up"
ForceFinishStep == started /\ last_op' \in {"finish_quit", "finish_time"}

NoDuplicates(s) == \A i, j \in 1..Len(s) : s[i] = s[j] => i = j

-----------------------------------------------------------------------------
(* Claims *)

\* C1: in every state of a started round the current cluster lies in
\* MIN_CLUSTER .. CLUSTER_LIMITS[subject] of the round's subject.
C1_ClusterInRange ==
    started => cluster \in MIN_CLUSTER..CLUSTER_LIMITS(subject)

\* C2: every successful load_next_question picks a question whose index label
\* is not yet in used_indices and appends it once, so used_indices never holds a
\* label twice.
C2_NoRepeatedQuestion ==
    [][LoadStep =>
         LET name == current_question'[1].name
         IN  /\ name \notin Range(used_indices)
             /\ used_indices' = Append(used_indices, name)
             /\ NoDuplicates(used_indices')]_vars

\* C2 witness: a second or later question of a round, drawn from a widened pool
C2_Witness ==
    /\ started /\ last_op = "load"
    /\ Len(used_indices) >= 2
    /\ current_question # <<>>
    /\ current_question[1].Cluster # cluster

\* C3 as stated: score <= question index <= total question target in every state.
C3_ScoreLeIndexLeTotal ==
    score <= question_index /\ question_index <= total_questions

\* C3 amended: question index <= total question target in every state, and score
\* is at most the number of answers submitted in the round (it exceeds the
\* question index as soon as a correct answer waits for Next Question).
C3_IndexLeTotalScoreLeSubmits ==
    /\ 0 <= question_index /\ question_index <= total_questions
    /\ 0 <= score /\ score <= submit_calls

\* C3 witness: a correct answer was submitted and Next Question not yet clicked
C3_Witness ==
    /\ started /\ submitted /\ last_op = "submit"
    /\ score = question_index + 1
    /\ question_index = total_questions - 1

\* C4: in normal mode a correct submit_answer sets the cluster to
\* min(old + 1, limit of the subject) and a wrong one to max(old - 1, MIN_CLUSTER);
\* so correct answers never lower it nor pass the limit and wrong answers never
\* raise it nor pass the minimum.
C4_ClampedStep ==
    [][(SubmitStep /\ mode = "normal") =>
         IF score' = score + 1
         THEN /\ cluster' = Min(cluster + 1, CLUSTER_LIMITS(subject))
              /\ cluster' >= cluster
              /\ cluster' <= CLUSTER_LIMITS(subject)
         ELSE /\ score' = score
              /\ cluster' = Max(cluster - 1, MIN_CLUSTER)
              /\ cluster' <= cluster
              /\ cluster' >= MIN_CLUSTER]_vars

\* C4 witness: a fifth correct Mathematics answer, given at the limit
C4_Witness ==
    /\ started /\ mode = "normal" /\ last_op = "submit"
    /\ subject = "Mathematics"
    /\ cluster = MATHEMATICS_LIMIT
    /\ score = MATHEMATICS_LIMIT - StartCluster("Mathematics", "normal", <<>>) + 1

\* C5: a wrong answer to a question not yet answered adds 1 to the tally entry of
\* the cluster of the question on the page, and changes no other entry.
C5_MissCountedUnderQuestionCluster ==
    [][(SubmitStep /\ ~submitted /\ score' = score) =>
         LET qc == current_question[1].Cluster
         IN  /\ DictGet(weak_clusters', qc, 0) = DictGet(weak_clusters, qc, 0) + 1
             /\ \A c \in Range(DictKeys(weak_clusters')) \ {qc} :
                   DictGet(weak_clusters', c, 0) = DictGet(weak_clusters, c, 0)]_vars

\* C6: once an answer to the question on the page is submitted, no further
\* submit changes score, cluster or tally before Next Question.
C6_SubmitOnlyOncePerQuestion ==
    [][(SubmitStep /\ submitted) =>
         /\ score' = score
         /\ cluster' = cluster
         /\ weak_clusters' = weak_clusters]_vars

\* C7: in weak_only mode submit_answer leaves the cluster as it was, for a
\* correct and for a wrong answer.
C7_WeakOnlyKeepsCluster ==
    [][(SubmitStep /\ mode = "weak_only") => cluster' = cluster]_vars

\* C7 witness: a weak_only round with a correct and a wrong answer behind it
C7_Witness ==
    /\ started /\ mode = "weak_only" /\ last_op = "submit"
    /\ score >= 1
    /\ DictGet(weak_clusters, cluster, 0) >= 1

\* C8: Next Question is handled only after a submitted answer; it adds 1 to the
\* question index and clears question and feedback; the index equals the number
\* of Next Question clicks; that run finishes the round exactly when the index
\* reaches the target; a round that is not started sees no load, submit or advance.
C8_Advance ==
    [][/\ AdvanceStep =>
            /\ started /\ submitted
            /\ question_index' = question_index + 1
            /\ current_question' = <<>>
            /\ feedback' = <<>>
            /\ ~submitted'
            /\ (stage' = "finished") <=> (question_index' = total_questions)
       /\ question_index' = advance_calls'
       /\ ~started => (~AdvanceStep /\ ~SubmitStep /\ ~LoadStep)]_vars

\* C8 witness: the round finished by the Next Question click that reached the target
C8_Witness ==
    /\ stage = "finished" /\ last_op = "finish_target"
    /\ question_index = total_questions
    /\ advance_calls = total_questions

\* C9: Quit Quiz can be handled on every page that shows a question, answered
\* or not; quit and time expiry end the round with stage finished and leave
\* score, question index and tally as they were.
C9_ForceFinish ==
    /\ []((stage = "quiz" /\ ~rerun) =>
            /\ started /\ current_question # <<>>
            /\ ENABLED QuitQuiz)
    /\ [][ForceFinishStep =>
            /\ stage' = "finished"
            /\ ~started'
            /\ score' = score
            /\ question_index' = question_index
            /\ weak_clusters' = weak_clusters]_vars

\* C9 witness: a round quit on an answered question, with a score and a miss
C9_Witness ==
    /\ stage = "finished" /\ last_op = "finish_quit"
    /\ submitted
    /\ score >= 1 /\ question_index >= 1
    /\ weak_clusters # <<>>

\* C10: a result row is written only by the run that finishes the round, and its
\* progress is question_index / total_questions, between 0 and 1.
C10_Summary ==
    saved # <<>> =>
        /\ stage = "finished" /\ ~started
        /\ saved[1].progress = <<question_index, total_questions>>
        /\ 0 <= saved[1].progress[1]
        /\ saved[1].progress[1] <= saved[1].progress[2]
        /\ saved[1].progress[2] >= 1

\* C10 witness: the row of a round that ran out of questions part way
C10_Witness ==
    /\ saved # <<>> /\ last_op = "finish_exhausted"
    /\ question_index >= 1
    /\ question_index < total_questions

\* C11: a weak_only round never has an empty candidate list; a Retry Weak Areas
\* click that finds no cluster with a miss leaves the stage and the whole quiz
\* state as they were.
C11_NoWeakAreasRejected ==
    /\ [](mode = "weak_only" => weak_only_list # <<>>)
    /\ [][(~rerun /\ stage \in {"subject", "finished"} /\ weak_list = <<>>) =>
             /\ started' => mode' = "normal"
             /\ last_op' = "no_weak_areas" => UNCHANGED <<stage, quizvars, history>>]_vars

\* C11 witness: Retry Weak Areas turned away after a round without a miss
C11_Witness ==
    /\ last_op = "no_weak_areas"
    /\ stage = "finished" /\ ~started
    /\ score >= 1 /\ weak_list = <<>>

\* the unused questions a round may still present: of the subject, and in
\* weak_only mode of a cluster of the candidate list
Eligible ==
    {n \in Names : /\ n \notin Range(used_indices)
                   /\ mode = "weak_only" => RowOf(n).Cluster \in Range(weak_only_list)}

\* a run of the quiz stage that calls load_next_question
SelectRun == rerun /\ stage = "quiz" /\ started /\ current_question = <<>>

\* C12: load_next_question fails exactly when no eligible unused question is
\* left; the failing run changes neither used_indices, current question, score,
\* question index nor tally, and finishes the round.
C12_ExhaustedIffNoneEligible ==
    [][SelectRun =>
         IF Eligible = {}
         THEN /\ UNCHANGED <<used_indices, current_question, score, question_index,
                             weak_clusters>>
              /\ stage' = "finished" /\ ~started'
              /\ last_op' = "finish_exhausted"
         ELSE /\ current_question' # <<>>
              /\ current_question'[1].name \in Eligible
              /\ last_op' # "finish_exhausted"]_vars

\* C12 witness: a normal round ended because the subject has no unused question
C12_Witness ==
    /\ stage = "finished" /\ last_op = "finish_exhausted"
    /\ mode = "normal"
    /\ Len(used_indices) = Len(df_subj(subject))
    /\ question_index < total_questions

\* C13: no round runs with fewer than one question or with a subject that has
\* no cluster limit.
C13_OnlyValidConfigurations ==
    started => (total_questions >= 1 /\ subject \in KnownSubjects)

\* the scenario of C14 so far: a normal Mathematics round of 3 questions, each
\* question answered once
Scenario ==
    /\ subject = "Mathematics" /\ mode = "normal" /\ total_questions = 3
    /\ submit_calls = Len(answers)

\* C14: in that round the cluster starts at 4; after a correct answer it is 5
\* with score 1 (and the next question comes from cluster 5); after a wrong
\* second answer it is 4 with tally {5: 1}; after a correct third answer it is 5
\* with score 2; the third Next Question finishes the round and the row saved has
\* score 2, total 3, progress 3/3 and the one weak topic of cluster 5 with 1 miss.
C14_ScenarioTrace ==
    Scenario =>
      /\ (started /\ answers = <<>>) => (cluster = 4 /\ score = 0)
      /\ answers = <<TRUE>> =>
            /\ cluster = 5 /\ score = 1 /\ weak_clusters = <<>>
            /\ (advance_calls = 1 /\ current_question # <<>>) =>
                   current_question[1].Cluster = 5
      /\ answers = <<TRUE, FALSE>> =>
            /\ cluster = 4 /\ score = 1
            /\ weak_clusters = <<[cl |-> 5, misses |-> 1]>>
      /\ answers = <<TRUE, FALSE, TRUE>> =>
            /\ cluster = 5 /\ score = 2
            /\ weak_clusters = <<[cl |-> 5, misses |-> 1]>>
            /\ advance_calls = 3 => ~started
            /\ (advance_calls = 3 /\ last_op = "finish_target") =>
                  /\ stage = "finished"
                  /\ saved # <<>> =>
                        /\ saved[1].subject = "Mathematics"
                        /\ saved[1].score = 2
                        /\ saved[1].total_questions = 3
                        /\ saved[1].progress = <<3, 3>>
                        /\ saved[1].weak_clusters =
                              <<[topic |-> <<"Simple Calculations">>, misses |-> 1]>>

\* C14 witness: the scenario played to its end, the row saved
C14_Witness ==
    /\ Scenario
    /\ answers = <<TRUE, FALSE, TRUE>>
    /\ advance_calls = 3
    /\ last_op = "finish_target"
    /\ saved # <<>>

\* every key submit_answer is called with
SubmittedKeys == ChoiceKeys \cup TypedKeys

\* the run judged the answer correct
JudgedCorrect == feedback' = <<"Correct">> /\ score' = score + 1

FinishStep ==
    /\ started
    /\ last_op' \in {"finish_target", "finish_exhausted", "finish_time", "finish_quit"}

\* C16: a finish_and_record whose save_result raises still closes the round as a
\* successful one does: not started, stage finished, score and tally unchanged,
\* question index as the handler left it, and the script goes on to st.rerun().
C16_FinishSurvivesSaveFailure ==
    [][FinishStep =>
          /\ saved' = <<>> =>
                /\ stage' = "finished" /\ ~started' /\ rerun'
                /\ score' = score
                /\ weak_clusters' = weak_clusters
                /\ question_index' = IF last_op' = "finish_target"
                                     THEN question_index + 1 ELSE question_index
          /\ saved' # <<>> =>
                /\ stage' = "finished" /\ ~started' /\ rerun'
                /\ saved'[1].score = score
                /\ saved'[1].weak_clusters = MappedWeak(weak_clusters, subject)]_vars

\* C16 witness: a round with a score and a miss, finished at its target by a run
\* whose save_result raised
C16_Witness ==
    /\ last_op = "finish_target" /\ rerun /\ saved = <<>>
    /\ stage = "finished" /\ ~started
    /\ score >= 1 /\ weak_clusters # <<>>
    /\ question_index = total_questions

\* an unused question of the current cluster exists
CurrentClusterHasUnused ==
    \E n \in Names : n \notin Range(used_indices) /\ RowOf(n).Cluster = cluster

\* C17: a question loaded in a weak_only round has a cluster of the candidate
\* list, from the target pool or the widened one; a question loaded in a normal
\* round has the current cluster whenever that cluster has an unused question.
C17_SelectionRespectsMode ==
    [][LoadStep =>
          /\ mode = "weak_only" =>
                current_question'[1].Cluster \in Range(weak_only_list)
          /\ (mode = "normal" /\ CurrentClusterHasUnused) =>
                current_question'[1].Cluster = cluster]_vars

\* C17 witness: a weak_only round whose question came from the widened pool, of a
\* candidate cluster other than the current one
C17_Witness ==
    /\ mode = "weak_only" /\ started /\ last_op = "load"
    /\ current_question # <<>>
    /\ current_question[1].Cluster # cluster
    /\ current_question[1].Cluster \in Range(weak_only_list)

\* The round under the scheduling C18 assumes: Streamlit runs the script again
\* after every st.rerun(), and the learner keeps answering and advancing.
SpecLearnerActs ==
    /\ Init /\ [][Next]_vars
    /\ WF_vars(QuizRerun)
    /\ SF_vars(SubmitAnswerButton)
    /\ SF_vars(NextQuestion)

\* a round in progress
InRound == started /\ stage = "quiz"

C19_WeakOnlyStaysOnFirstCandidate ==
    mode = "weak_only" =>
        /\ weak_only_list # <<>>
        /\ cluster = weak_only_list[1]
        /\ TargetClusters = {cluster}
        /\ DictKeys(weak_clusters) = weak_only_list
        /\ weak_clusters[1].misses = submit_calls - score
        /\ \A i \in 2..Len(weak_clusters) : weak_clusters[i].misses = 0

\* C19 witness: a weak_only round with two candidates and a miss on a question of
\* the second candidate's cluster
C19_Witness ==
    /\ mode = "weak_only" /\ started /\ last_op = "submit"
    /\ Len(weak_only_list) >= 2
    /\ current_question[1].Cluster = weak_only_list[2]
    /\ weak_clusters[1].misses >= 1

RECURSIVE SumMisses(_)
\* sum(quiz["weak_clusters"].values())
SumMisses(wc) == IF wc = <<>> THEN 0 ELSE wc[1].misses + SumMisses(Tail(wc))

\* a run that called reset_quiz_state
ResetStep == last_op' = "reset"

\* C20: score plus the misses of the tally is the number of submit_answer calls
\* of the round; a call adds 1 to the score or 1 to one entry of the tally, and
\* no run other than a submit or the start of a round changes either.
C20_ScorePlusMissesIsSubmits ==
    /\ [](score + SumMisses(weak_clusters) = submit_calls)
    /\ [][SubmitStep =>
            \/ score' = score + 1 /\ weak_clusters' = weak_clusters
            \/ /\ score' = score
               /\ \E k \in Range(DictKeys(weak_clusters')) :
                     weak_clusters' = DictSet(weak_clusters, k,
                                              DictGet(weak_clusters, k, 0) + 1)]_vars
    /\ [][(~SubmitStep /\ ~ResetStep) => UNCHANGED <<score, weak_clusters>>]_vars

\* C20 witness: a round with a correct answer and misses under two clusters
C20_Witness ==
    /\ started /\ submit_calls >= 3
    /\ score >= 1
    /\ Len(weak_clusters) >= 2
    /\ SumMisses(weak_clusters) >= 2

====
